---- MODULE Spec2Model ----
(***************************************************************************)
(* Model of start-agrichain.js: the startup orchestrator of the AgriChain  *)
(* environment.  main() runs five steps in sequence (startGanache,         *)
(* deployContract, updateServerConfig, createTestData, startServer); the   *)
(* child processes report through 'data' and 'close' callbacks, timers     *)
(* through setTimeout callbacks, and SIGINT/SIGTERM through cleanup().     *)
(*                                                                         *)
(* Text is modelled as sequences of one-character strings, so that         *)
(* String.includes, String.match and String.replace are computed over the  *)
(* characters, chunk by chunk, as the callbacks do.                        *)
(*                                                                         *)
(* One action of the model is one turn of the Node.js event loop: a        *)
(* callback together with the promise continuations (microtasks) it        *)
(* releases.  The synchronous stretches of main() between two awaits are   *)
(* separate actions taken while every callback is held back (AtEventLoop). *)
(***************************************************************************)
EXTENDS Integers, Sequences, FiniteSets, TLC

----------------------------------------------------------------------------
(* Text helpers *)

Min(S) == CHOOSE x \in S : \A y \in S : x <= y

\* s has p at index i
IsPrefixAt(s, p, i) ==
    /\ i >= 1
    /\ i + Len(p) - 1 <= Len(s)
    /\ \A j \in 1..Len(p) : s[i + j - 1] = p[j]

\* String.prototype.includes
includes(s, p) == \E i \in 1..(Len(s) + 1) : IsPrefixAt(s, p, i)

\* the first index >= i of s whose character is not in S (Len(s)+1 if none)
SkipWhile(s, i, S) ==
    LET stops == {j \in i..Len(s) : s[j] \notin S}
    IN  IF stops = {} THEN Len(s) + 1 ELSE Min(stops)

\* \s, \d and [a-fA-F0-9] of the regular expressions
Whitespace == {" ", "\n", "\t", "\r", "\f"}
Digit == {"0","1","2","3","4","5","6","7","8","9"}
HexDigit == Digit \cup {"a","b","c","d","e","f","A","B","C","D","E","F"}

\* the {40} of the address pattern
AddrHexLen == 40

\* the result of String.prototype.match: null, or the match with its group 1
NoMatch == [found |-> FALSE, group |-> <<>>]
Matched(g) == [found |-> TRUE, group |-> g]

----------------------------------------------------------------------------
(* The literals of the source *)

ListeningOn ==
    <<"L","i","s","t","e","n","i","n","g"," ","o","n">>
ServerOnPort ==
    <<"S","e","r","v","e","r"," ","o","n"," ","p","o","r","t">>
ContractAddressPrefix ==
    <<"c","o","n","t","r","a","c","t"," ","a","d","d","r","e","s","s",":">>
HexPrefix ==
    <<"0","x">>
NetworkIdPrefix ==
    <<"N","e","t","w","o","r","k"," ","i","d",":">>
NetworkIdDeclPrefix ==
    <<"c","o","n","s","t"," ","n","e","t","w","o","r","k","I","d"," ","="," ","'">>
NetworkIdDeclSuffix ==
    <<"'",";">>

\* /contract address:\s*(0x[a-fA-F0-9]{40})/ tried at index i
AddressMatchAt(s, i) ==
    LET d == SkipWhile(s, i + Len(ContractAddressPrefix), Whitespace)
    IN  /\ IsPrefixAt(s, ContractAddressPrefix, i)
        /\ IsPrefixAt(s, HexPrefix, d)
        /\ d + Len(HexPrefix) + AddrHexLen - 1 <= Len(s)
        /\ \A j \in (d + Len(HexPrefix))..(d + Len(HexPrefix) + AddrHexLen - 1) :
               s[j] \in HexDigit

\* output.match(/contract address:\s*(0x[a-fA-F0-9]{40})/)
addressMatch(s) ==
    LET hits == {i \in 1..Len(s) : AddressMatchAt(s, i)}
    IN  IF hits = {} THEN NoMatch
        ELSE LET d == SkipWhile(s, Min(hits) + Len(ContractAddressPrefix), Whitespace)
             IN  Matched(SubSeq(s, d, d + Len(HexPrefix) + AddrHexLen - 1))

\* /Network id:\s*(\d+)/ tried at index i
NetworkMatchAt(s, i) ==
    LET d == SkipWhile(s, i + Len(NetworkIdPrefix), Whitespace)
    IN  /\ IsPrefixAt(s, NetworkIdPrefix, i)
        /\ d <= Len(s)
        /\ s[d] \in Digit

\* output.match(/Network id:\s*(\d+)/)
networkMatch(s) ==
    LET hits == {i \in 1..Len(s) : NetworkMatchAt(s, i)}
    IN  IF hits = {} THEN NoMatch
        ELSE LET d == SkipWhile(s, Min(hits) + Len(NetworkIdPrefix), Whitespace)
                 e == SkipWhile(s, d, Digit)
             IN  Matched(SubSeq(s, d, e - 1))

\* /const networkId = '[^']*';/ tried at index i: the index after the match, or 0
DeclMatchEnd(s, i) ==
    LET q == SkipWhile(s, i + Len(NetworkIdDeclPrefix), {c \in {s[j] : j \in 1..Len(s)} : c # "'"})
    IN  IF IsPrefixAt(s, NetworkIdDeclPrefix, i) /\ IsPrefixAt(s, NetworkIdDeclSuffix, q)
        THEN q + Len(NetworkIdDeclSuffix)
        ELSE 0

\* a replace that writes the new value in front of the old one instead of over it
replaceNetworkIdKeepOld(s, id) ==
    LET hits == {i \in 1..Len(s) : DeclMatchEnd(s, i) # 0}
    IN  IF hits = {} THEN s
        ELSE LET i == Min(hits)
             IN  SubSeq(s, 1, i - 1) \o NetworkIdDeclPrefix \o id
                 \o SubSeq(s, i + Len(NetworkIdDeclPrefix), Len(s))

\* serverContent.replace(/const networkId = '[^']*';/, `const networkId = '${networkId}';`):
\* the first match is replaced; without a match the content is returned as it is
replaceNetworkId(s, id) ==
    LET hits == {i \in 1..Len(s) : DeclMatchEnd(s, i) # 0}
    IN  IF hits = {} THEN s
        ELSE LET i == Min(hits)
             IN  SubSeq(s, 1, i - 1) \o NetworkIdDeclPrefix \o id \o NetworkIdDeclSuffix
                 \o SubSeq(s, DeclMatchEnd(s, i), Len(s))

----------------------------------------------------------------------------
(* The texts the environment is drawn from *)

GanacheOutReady ==
    <<"L","i","s","t","e","n","i","n","g"," ","o","n"," ","7","5","4","5">>
GanacheOutTwice ==
    <<"L","i","s","t","e","n","i","n","g"," ","o","n","\n","L","i","s","t","e","n","i",
      "n","g"," ","o","n">>
OutError ==
    <<"E","r","r","o","r">>
MigrateOutOne ==
    <<"N","e","t","w","o","r","k"," ","i","d",":"," ","5","7","7","7","\n","c","o","n",
      "t","r","a","c","t"," ","a","d","d","r","e","s","s",":"," ","0","x","A","B","C",
      "D","E","F","0","1","2","3","4","5","6","7","8","9","A","B","C","D","E","F","0",
      "1","2","3","4","5","6","7","8","9","A","B","C","D","E","F","0","1","\n">>
MigrateOutLate ==
    <<"N","e","t","w","o","r","k"," ","i","d",":"," ","1","\n","N","e","t","w","o","r",
      "k"," ","i","d",":"," ","5","7","7","7">>
ServerOutReady ==
    <<"S","e","r","v","e","r"," ","o","n"," ","p","o","r","t"," ","5","0","0","0">>
ConfigEmptyId ==
    <<"c","o","n","s","t"," ","n","e","t","w","o","r","k","I","d"," ","="," ","'","'",
      ";">>
ConfigTwoDecls ==
    <<"c","o","n","s","t"," ","n","e","t","w","o","r","k","I","d"," ","="," ","'","1",
      "'",";","\n","c","o","n","s","t"," ","n","e","t","w","o","r","k","I","d"," ","=",
      " ","'","2","'",";">>
ConfigNoDecl ==
    <<"l","e","t"," ","n","e","t","w","o","r","k","I","d"," ","="," ","'","1","'",";">>
Id5777 ==
    <<"5","7","7","7">>
DeployedAddress ==
    <<"0","x","A","B","C","D","E","F","0","1","2","3","4","5","6","7","8","9","A","B",
      "C","D","E","F","0","1","2","3","4","5","6","7","8","9","A","B","C","D","E","F",
      "0","1">>

GanacheOutputs == {GanacheOutReady, GanacheOutTwice, OutError}
MigrateOutputs == {MigrateOutOne, MigrateOutLate, OutError}
ServerOutputs == {ServerOutReady, OutError}
ConfigContents == {ConfigEmptyId, ConfigTwoDecls, ConfigNoDecl}

----------------------------------------------------------------------------
(* State *)

Procs == {"ganache", "migrate", "server"}
Steps == <<"startGanache", "deployContract", "updateServerConfig", "createTestData",
           "startServer">>
StepNames == {Steps[i] : i \in 1..Len(Steps)}
ReadinessSteps == {"startGanache", "startServer"}

\* the code of a 'close' event: a number, or null when a signal ended the process
Null == <<>>
CloseCodes == {<<0>>, <<1>>, Null}

ErrorKinds == {"ProcessExitedEarly", "StartupTimeout", "DeployFailed",
               "ConfigArtifactUnreadable", "DeploymentArtifactMissing", "CallRejected"}

\* testItems of createTestData
testItems ==
    << [name |-> "Mango", origin |-> "Mumbai", price |-> 1000, quality |-> "Premium"],
       [name |-> "Rice", origin |-> "Punjab", price |-> 500, quality |-> "Organic"],
       [name |-> "Wheat", origin |-> "Haryana", price |-> 300, quality |-> "Standard"] >>

VARIABLES
    pc,              \* where main() stands
    exitStatus,      \* <<>> while the orchestrator runs, <<status>> after process.exit
    error,           \* the error main's catch received, "none" before
    interrupts,      \* how many times a signal has invoked cleanup
    ganacheProcess,  \* the module variable holds a process handle
    serverProcess,   \* the module variable holds a process handle
    proc,            \* each child process: "unspawned", "running", "closed"
    closeCode,       \* per child: {} until it closes, then {the code of its close}
    pending,         \* the output a running child has still to write
    emitted,         \* the output a running child has written so far (history)
    ganacheReady,    \* startGanache's flag
    serverReady,     \* startServer's flag
    contractAddress, \* deployContract's local
    networkId,       \* deployContract's local
    mainNetworkId,   \* main's networkId, destructured from deployContract's result
    promise,         \* each step's promise: "none", "pending", "fulfilled" or the
                     \* error kind it was rejected with
    timer,           \* each setTimeout: "unset", "armed", "fired"
    serverContent,   \* server/index.js as last written by updateServerConfig
    configBefore,    \* server/index.js as updateServerConfig read it (history)
    artifact,        \* contractJSON.networks of AgriSupplyChain.json as createTestData
                     \* loaded it: network id -> [address]
    calls,           \* the contract calls createTestData has submitted, in order
    awaitingCall,    \* a submitted call is not yet acknowledged
    acked,           \* how many submitted calls have been acknowledged (history)
    teardownPasses,  \* how many times cleanup's body has run
    killCalls,       \* per child: calls of kill('SIGTERM')
    termSent,        \* per child: SIGTERMs delivered to the live process
    killLog,         \* the kill() calls of cleanup, in order (history)
    firstProducer,   \* per readiness step: which of match, exit, timeout fired first
    markerSeen,      \* per readiness step: chunks in which the handler found the
                     \* marker (history)
    matchActs,       \* per readiness step: times the handler's if-branch has run
                     \* (history)
    startCount       \* per step: how many times main has called it (history)

Timers == {"ganacheTimeout", "ganacheSettle", "serverTimeout"}

mainVars == <<pc, exitStatus, error, teardownPasses, killCalls, termSent, killLog>>
procVars == <<proc, closeCode, pending, emitted>>
deployVars == <<contractAddress, networkId, mainNetworkId>>
fileVars == <<serverContent, configBefore, artifact>>
seedVars == <<calls, awaitingCall, acked>>
vars == <<pc, exitStatus, error, interrupts, ganacheProcess, serverProcess, proc,
          closeCode,
          pending, emitted, ganacheReady, serverReady, contractAddress, networkId,
          mainNetworkId, promise, timer, serverContent, configBefore, artifact, calls,
          awaitingCall, acked, teardownPasses, killCalls, termSent, killLog, firstProducer, markerSeen, matchActs, startCount>>

\* the state when main() is about to be called (line 260): the signal handlers are
\* installed, nothing is spawned
Init ==
    /\ pc = "Idle"
    /\ exitStatus = <<>>
    /\ error = "none"
    /\ interrupts = 0
    /\ ganacheProcess = FALSE
    /\ serverProcess = FALSE
    /\ proc = [p \in Procs |-> "unspawned"]
    /\ closeCode = [p \in Procs |-> {}]
    /\ pending = [p \in Procs |-> <<>>]
    /\ emitted = [p \in Procs |-> <<>>]
    /\ ganacheReady = FALSE
    /\ serverReady = FALSE
    /\ contractAddress = <<>>
    /\ networkId = <<>>
    /\ mainNetworkId = <<>>
    /\ promise = [s \in StepNames |-> "none"]
    /\ timer = [t \in Timers |-> "unset"]
    /\ serverContent = <<>>
    /\ configBefore = <<>>
    /\ artifact = <<>>
    /\ calls = <<>>
    /\ awaitingCall = FALSE
    /\ acked = 0
    /\ teardownPasses = 0
    /\ killCalls = [p \in Procs |-> 0]
    /\ termSent = [p \in Procs |-> 0]
    /\ killLog = <<>>
    /\ firstProducer = [s \in ReadinessSteps |-> "none"]
    /\ markerSeen = [s \in ReadinessSteps |-> 0]
    /\ matchActs = [s \in ReadinessSteps |-> 0]
    /\ startCount = [s \in StepNames |-> 0]

\* the orchestrator is alive and main() is suspended at an await, so the event loop
\* can run a callback
AtEventLoop ==
    /\ exitStatus = <<>>
    /\ \/ pc \in {"NetworkStarting", "Deploying", "ServerStarting", "Running"}
       \/ pc = "Seeding" /\ awaitingCall

----------------------------------------------------------------------------
(* cleanup and main's catch *)

\* process.exit(status): ends the process unless it has ended already
processExit(status, es) == IF es = <<>> THEN <<status>> ELSE es

\* whether cleanup finds a handle in the module variable of child p (line 9):
\* deployContract keeps its child in a local const (line 79)
Registered(p) ==
    CASE p = "ganache" -> ganacheProcess
      [] p = "server" -> serverProcess
      [] OTHER -> FALSE

\* cleanup killing the server before ganache, with SIGKILL
cleanupSignalsServerFirst(g, s) ==
    (IF s THEN <<[child |-> "server", signal |-> "SIGKILL"]>> ELSE <<>>)
    \o (IF g THEN <<[child |-> "ganache", signal |-> "SIGKILL"]>> ELSE <<>>)

\* lines 13-21 of cleanup: the kill calls it makes, in order, g and s being whether
\* ganacheProcess and serverProcess are set
cleanupSignals(g, s) ==
    (IF g THEN <<[child |-> "ganache", signal |-> "SIGTERM"]>> ELSE <<>>)
    \o (IF s THEN <<[child |-> "server", signal |-> "SIGTERM"]>> ELSE <<>>)

\* lines 13-21 of cleanup, pr being the children's state when it runs: kill() sends
\* the signal only while the child's handle is live
cleanupKills(pr) ==
    /\ teardownPasses' = teardownPasses + 1
    /\ killCalls' = [p \in Procs |-> IF Registered(p) THEN killCalls[p] + 1
                                     ELSE killCalls[p]]
    /\ termSent' = [p \in Procs |-> IF Registered(p) /\ pr[p] = "running"
                                    THEN termSent[p] + 1 ELSE termSent[p]]
    /\ killLog' = killLog \o cleanupSignals(ganacheProcess, serverProcess)

\* cleanup ending with process.exit(1)
cleanupExitOne(es) == processExit(1, es)

\* cleanup without its process.exit
cleanupNoExit(es) == es

\* line 22 of cleanup
cleanupExit(es) == processExit(0, es)

\* lines 253-257: main's catch, entered with the rejection of the awaited step
MainCatch(kind, pr) ==
    /\ pc' = "Failed"
    /\ error' = kind
    /\ cleanupKills(pr)
    /\ exitStatus' = processExit(1, cleanupExit(exitStatus))

\* reject(new Error(...)) of step s: settles the promise if it is still pending, and
\* main, which awaits it, enters its catch
Reject(s, kind, pr) ==
    IF promise[s] = "pending"
    THEN /\ promise' = [promise EXCEPT ![s] = kind]
         /\ MainCatch(kind, pr)
    ELSE UNCHANGED <<promise, mainVars>>

\* lines 26-27: SIGINT or SIGTERM invokes cleanup
Signal ==
    /\ AtEventLoop
    /\ interrupts' = interrupts + 1
    /\ cleanupKills(proc)
    /\ exitStatus' = cleanupExit(exitStatus)
    /\ UNCHANGED <<pc, error, ganacheProcess, serverProcess, procVars, ganacheReady,
                   serverReady, deployVars, promise, timer, fileVars, seedVars,
                   firstProducer, markerSeen, matchActs, startCount>>

\* the first of the three producers of a readiness step to fire
NoteProducer(s, what) ==
    firstProducer' = [firstProducer EXCEPT ![s] = IF @ = "none" THEN what ELSE @]

----------------------------------------------------------------------------
(* Child processes *)

\* spawn(...): child p starts, with out the output it is going to write
Spawn(p, out) ==
    /\ proc' = [proc EXCEPT ![p] = "running"]
    /\ pending' = [pending EXCEPT ![p] = out]
    /\ emitted' = [emitted EXCEPT ![p] = <<>>]
    /\ UNCHANGED closeCode

\* a 'data' event of child p carrying its next k characters
Emit(p, k) ==
    /\ pending' = [pending EXCEPT ![p] = SubSeq(@, k + 1, Len(@))]
    /\ emitted' = [emitted EXCEPT ![p] = @ \o SubSeq(pending[p], 1, k)]
    /\ UNCHANGED <<proc, closeCode>>

\* a 'close' event of child p with the given code: its streams have ended, nothing
\* more is written
Closed(p) == [proc EXCEPT ![p] = "closed"]
Close(p, code) ==
    /\ proc' = Closed(p)
    /\ closeCode' = [closeCode EXCEPT ![p] = {code}]
    /\ pending' = [pending EXCEPT ![p] = <<>>]
    /\ emitted' = [emitted EXCEPT ![p] = <<>>]

----------------------------------------------------------------------------
(* Step 1: startGanache *)

\* lines 30-72: the promise executor of startGanache
startGanache ==
    /\ \E out \in GanacheOutputs : Spawn("ganache", out)
    /\ ganacheProcess' = TRUE
    /\ ganacheReady' = FALSE
    /\ timer' = [timer EXCEPT !["ganacheTimeout"] = "armed"]
    /\ promise' = [promise EXCEPT !["startGanache"] = "pending"]
    /\ startCount' = [startCount EXCEPT !["startGanache"] = @ + 1]

\* main() calling deployContract without awaiting startGanache
mainNoAwait ==
    /\ pc = "Idle"
    /\ exitStatus = <<>>
    /\ \E g \in GanacheOutputs, m \in MigrateOutputs :
         /\ proc' = [proc EXCEPT !["ganache"] = "running", !["migrate"] = "running"]
         /\ pending' = [pending EXCEPT !["ganache"] = g, !["migrate"] = m]
    /\ ganacheProcess' = TRUE
    /\ timer' = [timer EXCEPT !["ganacheTimeout"] = "armed"]
    /\ promise' = [promise EXCEPT !["startGanache"] = "pending",
                                  !["deployContract"] = "pending"]
    /\ startCount' = [startCount EXCEPT !["startGanache"] = @ + 1,
                                        !["deployContract"] = @ + 1]
    /\ pc' = "Deploying"
    /\ UNCHANGED <<exitStatus, error, interrupts, serverProcess, closeCode, emitted,
                   ganacheReady, serverReady, deployVars, fileVars, seedVars,
                   teardownPasses, killCalls, termSent, killLog, firstProducer, markerSeen, matchActs>>

\* lines 232-234: main() is called and runs up to its first await
main ==
    /\ pc = "Idle"
    /\ exitStatus = <<>>
    /\ startGanache
    /\ pc' = "NetworkStarting"
    /\ UNCHANGED <<exitStatus, error, interrupts, serverProcess, serverReady, deployVars,
                   fileVars, seedVars, teardownPasses, killCalls, termSent, killLog,
                   firstProducer, markerSeen, matchActs>>

\* line 50: the test the stdout handler applies to one chunk
ganacheMarker(output) == includes(output, ListeningOn)

\* line 50 without its ganacheReady test
ganacheMatchActsEveryTime(output, ready) == ganacheMarker(output)

\* line 50: whether the stdout handler acts on a chunk, ready being ganacheReady
ganacheMatchActs(output, ready) == ganacheMarker(output) /\ ~ready

\* lines 46-54: a chunk of ganache's stdout
GanacheData(k) ==
    /\ AtEventLoop
    /\ proc["ganache"] = "running"
    /\ k \in 1..Len(pending["ganache"])
    /\ Emit("ganache", k)
    /\ markerSeen' = [markerSeen EXCEPT !["startGanache"] =
                          IF ganacheMarker(SubSeq(pending["ganache"], 1, k))
                          THEN @ + 1 ELSE @]
    /\ IF ganacheMatchActs(SubSeq(pending["ganache"], 1, k), ganacheReady)
       THEN /\ ganacheReady' = TRUE
            /\ timer' = [timer EXCEPT !["ganacheSettle"] = "armed"]
            /\ matchActs' = [matchActs EXCEPT !["startGanache"] = @ + 1]
            /\ NoteProducer("startGanache", "match")
       ELSE UNCHANGED <<ganacheReady, timer, firstProducer, matchActs>>
    /\ UNCHANGED <<mainVars, interrupts, ganacheProcess, serverProcess, serverReady,
                   deployVars, promise, fileVars, seedVars, startCount>>

\* line 61: the close handler's test of the exit code
exitedWithError(code) == code # <<0>> /\ code # Null

\* lines 60-64: ganache closes
GanacheClose(code) ==
    /\ AtEventLoop
    /\ proc["ganache"] = "running"
    /\ Close("ganache", code)
    /\ NoteProducer("startGanache", "exit")
    /\ UNCHANGED <<markerSeen, matchActs>>
    /\ IF exitedWithError(code)
       THEN Reject("startGanache", "ProcessExitedEarly", Closed("ganache"))
       ELSE UNCHANGED <<promise, mainVars>>
    /\ UNCHANGED <<interrupts, ganacheProcess, serverProcess, ganacheReady, serverReady,
                   deployVars, timer, fileVars, seedVars, startCount>>

\* the 30 s timer rejecting without looking at ganacheReady
GanacheTimeoutUnguarded ==
    /\ AtEventLoop
    /\ timer["ganacheTimeout"] = "armed"
    /\ timer' = [timer EXCEPT !["ganacheTimeout"] = "fired"]
    /\ NoteProducer("startGanache", "timeout")
    /\ UNCHANGED <<markerSeen, matchActs>>
    /\ Reject("startGanache", "StartupTimeout", proc)
    /\ UNCHANGED <<interrupts, ganacheProcess, serverProcess, procVars, ganacheReady,
                   serverReady, deployVars, fileVars, seedVars, startCount>>

\* lines 67-71: the 30 s timer fires
GanacheTimeout ==
    /\ AtEventLoop
    /\ timer["ganacheTimeout"] = "armed"
    /\ timer' = [timer EXCEPT !["ganacheTimeout"] = "fired"]
    /\ NoteProducer("startGanache", "timeout")
    /\ UNCHANGED <<markerSeen, matchActs>>
    /\ IF ~ganacheReady
       THEN Reject("startGanache", "StartupTimeout", proc)
       ELSE UNCHANGED <<promise, mainVars>>
    /\ UNCHANGED <<interrupts, ganacheProcess, serverProcess, procVars, ganacheReady,
                   serverReady, deployVars, fileVars, seedVars, startCount>>

----------------------------------------------------------------------------
(* Step 2: deployContract *)

\* lines 76-117: the promise executor of deployContract
deployContract ==
    /\ \E out \in MigrateOutputs : Spawn("migrate", out)
    /\ contractAddress' = <<>>
    /\ networkId' = <<>>
    /\ startCount' = [startCount EXCEPT !["deployContract"] = @ + 1]

\* line 52 and lines 234-235: the 2 s settle timer fires and resolves startGanache;
\* main goes on to call deployContract
GanacheSettle ==
    /\ AtEventLoop
    /\ timer["ganacheSettle"] = "armed"
    /\ timer' = [timer EXCEPT !["ganacheSettle"] = "fired"]
    /\ IF promise["startGanache"] = "pending"
       THEN /\ promise' = [promise EXCEPT !["startGanache"] = "fulfilled",
                                          !["deployContract"] = "pending"]
            /\ deployContract
            /\ pc' = "Deploying"
       ELSE UNCHANGED <<promise, procVars, contractAddress, networkId, startCount, pc>>
    /\ UNCHANGED <<exitStatus, error, interrupts, ganacheProcess, serverProcess,
                   ganacheReady, serverReady, mainNetworkId, fileVars, seedVars,
                   teardownPasses, killCalls, termSent, killLog, firstProducer, markerSeen, matchActs>>

\* lines 87-102: a chunk of the migration's stdout
MigrateData(k) ==
    /\ AtEventLoop
    /\ proc["migrate"] = "running"
    /\ k \in 1..Len(pending["migrate"])
    /\ Emit("migrate", k)
    /\ LET output == SubSeq(pending["migrate"], 1, k)
       IN  /\ contractAddress' = IF addressMatch(output).found
                                 THEN addressMatch(output).group ELSE contractAddress
           /\ networkId' = IF networkMatch(output).found
                           THEN networkMatch(output).group ELSE networkId
    /\ UNCHANGED <<mainVars, interrupts, ganacheProcess, serverProcess, ganacheReady,
                   serverReady, mainNetworkId, promise, timer, fileVars, seedVars,
                   firstProducer, markerSeen, matchActs, startCount>>

\* lines 108-116 and 235-236: the migration closes; on code 0 deployContract resolves
\* and main goes on to call updateServerConfig
MigrateClose(code) ==
    /\ AtEventLoop
    /\ proc["migrate"] = "running"
    /\ Close("migrate", code)
    /\ IF code = <<0>>
       THEN /\ promise' = [promise EXCEPT !["deployContract"] = "fulfilled",
                                          !["updateServerConfig"] = "pending"]
            /\ mainNetworkId' = networkId
            /\ startCount' = [startCount EXCEPT !["updateServerConfig"] = @ + 1]
            /\ pc' = "PatchingConfig"
            /\ UNCHANGED <<exitStatus, error, teardownPasses, killCalls, termSent, killLog>>
       ELSE /\ Reject("deployContract", "DeployFailed", Closed("migrate"))
            /\ UNCHANGED <<mainNetworkId, startCount>>
    /\ UNCHANGED <<interrupts, ganacheProcess, serverProcess, ganacheReady, serverReady,
                   contractAddress, networkId, timer, fileVars, seedVars, firstProducer, markerSeen, matchActs>>

----------------------------------------------------------------------------
(* Step 3: updateServerConfig *)

\* lines 120-134 and 236-237: server/index.js is read (readFileSync throws when it
\* cannot be), the declaration replaced, the file written; main goes on to call
\* createTestData
updateServerConfig ==
    /\ pc = "PatchingConfig"
    /\ exitStatus = <<>>
    /\ \E readable \in BOOLEAN, content \in ConfigContents :
         IF readable
         THEN /\ configBefore' = content
              /\ serverContent' = replaceNetworkId(content, mainNetworkId)
              /\ promise' = [promise EXCEPT !["updateServerConfig"] = "fulfilled",
                                            !["createTestData"] = "pending"]
              /\ startCount' = [startCount EXCEPT !["createTestData"] = @ + 1]
              /\ pc' = "Seeding"
              /\ UNCHANGED <<exitStatus, error, teardownPasses, killCalls, termSent, killLog>>
         ELSE /\ Reject("updateServerConfig", "ConfigArtifactUnreadable", proc)
              /\ UNCHANGED <<configBefore, serverContent, startCount>>
    /\ UNCHANGED <<interrupts, ganacheProcess, serverProcess, procVars, ganacheReady,
                   serverReady, deployVars, timer, artifact, seedVars, firstProducer, markerSeen, matchActs>>

----------------------------------------------------------------------------
(* Step 4: createTestData *)

\* contractJSON.networks: no entry, an entry without an address, a deployment
Artifacts == {<<>>, Id5777 :> [address |-> <<>>], Id5777 :> [address |-> DeployedAddress]}

\* the condition under which createTestData loads the contract rather than throwing
\* with an entry whose address is missing accepted
properlyDeployedAnyEntry(networks, id) == id \in DOMAIN networks

\* lines 145-147: deployed && deployed.address
properlyDeployed(networks, id) ==
    /\ id \in DOMAIN networks
    /\ networks[id].address # <<>>

farmerAccount == "0x90F8bf6A479f320ead074411a4B0e7944Ea8c9C1"

\* contract.methods.addFarmer(farmerAccount).send(...)
addFarmerCall == [method |-> "addFarmer", args |-> <<farmerAccount>>]

\* contract.methods.harvestItem(item.name, item.origin, item.price, item.quality).send(...)
harvestItemCall(item) ==
    [method |-> "harvestItem", args |-> <<item.name, item.origin, item.price, item.quality>>]

\* the loop of lines 168-181 without its await: every remaining item is submitted
\* at once
submittedAfterAckAll(cs) ==
    cs \o [i \in 1..(1 + Len(testItems) - Len(cs)) |->
              harvestItemCall(testItems[Len(cs) - 1 + i])]

\* lines 168-181: the calls submitted so far once the awaited call is acknowledged
\* and a test item is left: the next item's harvestItem call is submitted
submittedAfterAck(cs) == Append(cs, harvestItemCall(testItems[Len(cs)]))

\* lines 139-159: the artifact is loaded and checked, then addFarmer is submitted
createTestData ==
    /\ pc = "Seeding"
    /\ exitStatus = <<>>
    /\ ~awaitingCall
    /\ \E art \in Artifacts :
         /\ artifact' = art
         /\ IF properlyDeployed(art, mainNetworkId)
            THEN /\ calls' = <<addFarmerCall>>
                 /\ awaitingCall' = TRUE
                 /\ UNCHANGED acked
                 /\ UNCHANGED <<promise, mainVars>>
            ELSE /\ Reject("createTestData", "DeploymentArtifactMissing", proc)
                 /\ UNCHANGED seedVars
    /\ UNCHANGED <<interrupts, ganacheProcess, serverProcess, procVars, ganacheReady,
                   serverReady, deployVars, timer, serverContent, configBefore,
                   firstProducer, markerSeen, matchActs, startCount>>

\* lines 192-228: the promise executor of startServer
startServer ==
    /\ \E out \in ServerOutputs : Spawn("server", out)
    /\ serverProcess' = TRUE
    /\ serverReady' = FALSE
    /\ timer' = [timer EXCEPT !["serverTimeout"] = "armed"]
    /\ startCount' = [startCount EXCEPT !["startServer"] = @ + 1]

\* lines 156-183 and 237-238: the awaited call is acknowledged; the next item is
\* submitted, or createTestData returns and main goes on to call startServer
CallAck ==
    /\ AtEventLoop
    /\ pc = "Seeding"
    /\ acked' = acked + 1
    /\ IF Len(calls) < 1 + Len(testItems)
       THEN /\ calls' = submittedAfterAck(calls)
            /\ UNCHANGED <<awaitingCall, promise, pc, procVars, serverProcess,
                           serverReady, timer, startCount>>
       ELSE /\ awaitingCall' = FALSE
            /\ promise' = [promise EXCEPT !["createTestData"] = "fulfilled",
                                          !["startServer"] = "pending"]
            /\ startServer
            /\ pc' = "ServerStarting"
            /\ UNCHANGED calls
    /\ UNCHANGED <<exitStatus, error, interrupts, ganacheProcess, ganacheReady,
                   deployVars, fileVars, teardownPasses, killCalls, termSent, killLog,
                   firstProducer, markerSeen, matchActs>>

\* lines 185-188: the awaited call is rejected; the error is logged and thrown again
CallReject ==
    /\ AtEventLoop
    /\ pc = "Seeding"
    /\ awaitingCall' = FALSE
    /\ UNCHANGED acked
    /\ Reject("createTestData", "CallRejected", proc)
    /\ UNCHANGED <<interrupts, ganacheProcess, serverProcess, procVars, ganacheReady,
                   serverReady, deployVars, timer, fileVars, calls, firstProducer, markerSeen, matchActs,
                   startCount>>

----------------------------------------------------------------------------
(* Step 5: startServer *)

\* line 206: the test the stdout handler applies to one chunk
serverMarker(output) == includes(output, ServerOnPort)

\* lines 202-210 and 238-251: a chunk of the server's stdout; on the marker the step
\* resolves at once and main reaches its final await
ServerData(k) ==
    /\ AtEventLoop
    /\ proc["server"] = "running"
    /\ k \in 1..Len(pending["server"])
    /\ Emit("server", k)
    /\ markerSeen' = [markerSeen EXCEPT !["startServer"] =
                          IF serverMarker(SubSeq(pending["server"], 1, k))
                          THEN @ + 1 ELSE @]
    /\ IF serverMarker(SubSeq(pending["server"], 1, k)) /\ ~serverReady
       THEN /\ serverReady' = TRUE
            /\ matchActs' = [matchActs EXCEPT !["startServer"] = @ + 1]
            /\ NoteProducer("startServer", "match")
            /\ IF promise["startServer"] = "pending"
               THEN /\ promise' = [promise EXCEPT !["startServer"] = "fulfilled"]
                    /\ pc' = "Running"
               ELSE UNCHANGED <<promise, pc>>
       ELSE UNCHANGED <<serverReady, firstProducer, matchActs, promise, pc>>
    /\ UNCHANGED <<exitStatus, error, interrupts, ganacheProcess, serverProcess,
                   ganacheReady, deployVars, timer, fileVars, seedVars, teardownPasses,
                   killCalls, termSent, killLog, startCount>>

\* lines 216-220: the server closes
ServerClose(code) ==
    /\ AtEventLoop
    /\ proc["server"] = "running"
    /\ Close("server", code)
    /\ NoteProducer("startServer", "exit")
    /\ UNCHANGED <<markerSeen, matchActs>>
    /\ IF exitedWithError(code)
       THEN Reject("startServer", "ProcessExitedEarly", Closed("server"))
       ELSE UNCHANGED <<promise, mainVars>>
    /\ UNCHANGED <<interrupts, ganacheProcess, serverProcess, ganacheReady, serverReady,
                   deployVars, timer, fileVars, seedVars, startCount>>

\* lines 223-227: the 15 s timer fires
ServerTimeout ==
    /\ AtEventLoop
    /\ timer["serverTimeout"] = "armed"
    /\ timer' = [timer EXCEPT !["serverTimeout"] = "fired"]
    /\ NoteProducer("startServer", "timeout")
    /\ UNCHANGED <<markerSeen, matchActs>>
    /\ IF ~serverReady
       THEN Reject("startServer", "StartupTimeout", proc)
       ELSE UNCHANGED <<promise, mainVars>>
    /\ UNCHANGED <<interrupts, ganacheProcess, serverProcess, procVars, ganacheReady,
                   serverReady, deployVars, fileVars, seedVars, startCount>>

----------------------------------------------------------------------------
(* The orchestrator *)

\* line 251: main's last await is on a promise that never settles, which by itself
\* does not keep Node running: when no child runs, no timer is armed and no call is
\* outstanding the event loop is empty and the process ends with status 0
EventLoopEmpty ==
    /\ AtEventLoop
    /\ \A p \in Procs : proc[p] # "running"
    /\ \A t \in Timers : timer[t] # "armed"
    /\ ~awaitingCall
    /\ exitStatus' = <<0>>
    /\ UNCHANGED <<pc, error, interrupts, ganacheProcess, serverProcess, procVars,
                   ganacheReady, serverReady, deployVars, promise, timer, fileVars,
                   seedVars, teardownPasses, killCalls, termSent, killLog, firstProducer,
                   markerSeen, matchActs, startCount>>

Next ==
    \/ main
    \/ \E k \in 1..Len(pending["ganache"]) : GanacheData(k)
    \/ \E code \in CloseCodes : GanacheClose(code)
    \/ GanacheTimeout
    \/ GanacheSettle
    \/ \E k \in 1..Len(pending["migrate"]) : MigrateData(k)
    \/ \E code \in CloseCodes : MigrateClose(code)
    \/ updateServerConfig
    \/ createTestData
    \/ CallAck
    \/ CallReject
    \/ \E k \in 1..Len(pending["server"]) : ServerData(k)
    \/ \E code \in CloseCodes : ServerClose(code)
    \/ ServerTimeout
    \/ Signal
    \/ EventLoopEmpty

Spec == Init /\ [][Next]_vars

\* what Node's scheduling guarantees: an armed timer fires (lines 51, 67, 224), the
\* synchronous stretches of main() run on (lines 232-241), and a process whose event
\* loop is empty ends. What the children write, when they close, whether a contract
\* call is answered and whether a signal arrives is up to the environment.
FairSpec ==
    /\ Spec
    /\ WF_vars(main)
    /\ WF_vars(GanacheTimeout)
    /\ WF_vars(GanacheSettle)
    /\ WF_vars(updateServerConfig)
    /\ WF_vars(createTestData)
    /\ WF_vars(ServerTimeout)
    /\ WF_vars(EventLoopEmpty)

TypeOK ==
    /\ pc \in {"Idle", "NetworkStarting", "Deploying", "PatchingConfig", "Seeding",
               "ServerStarting", "Running", "Failed"}
    /\ exitStatus \in {<<>>, <<0>>, <<1>>}
    /\ error \in ErrorKinds \cup {"none"}
    /\ promise \in [StepNames -> {"none", "pending", "fulfilled"} \cup ErrorKinds]
    /\ timer \in [Timers -> {"unset", "armed", "fired"}]
    /\ proc \in [Procs -> {"unspawned", "running", "closed"}]
    /\ teardownPasses \in 0..1
    /\ Len(calls) <= 1 + Len(testItems)

----------------------------------------------------------------------------
(* Claims *)

\* the child of a readiness step, its flag and its timer
ChildOf(s) == IF s = "startGanache" THEN "ganache" ELSE "server"
ReadyOf(s) == IF s = "startGanache" THEN ganacheReady ELSE serverReady
TimeoutOf(s) == IF s = "startGanache" THEN "ganacheTimeout" ELSE "serverTimeout"
Settled(s) == promise[s] \notin {"none", "pending"}
Exited == exitStatus # <<>>

\* C1: a run in which a step failed has run teardown and ended with a nonzero exit
\* status, never with 0.
C1_FailedRunExitsNonzero ==
    error # "none" => /\ teardownPasses >= 1
                      /\ Exited
                      /\ exitStatus # <<0>>

\* C2: after a teardown, every child that was spawned and is still running has been
\* sent the termination signal.
C2_TeardownSignalsEverySpawned ==
    teardownPasses >= 1 => \A p \in Procs : proc[p] = "running" => termSent[p] >= 1

\* C3: a readiness step whose child closed with code 0 before the marker was matched
\* ends with ProcessExitedEarly, not with a timeout error.
C3_ExitZeroBeforeMarker ==
    \A s \in ReadinessSteps :
        (firstProducer[s] = "exit" /\ closeCode[ChildOf(s)] = {<<0>>} /\ Settled(s))
            => promise[s] = "ProcessExitedEarly"

\* C4: a readiness step whose child closed before the marker was matched with a
\* nonzero or a null code has failed with ProcessExitedEarly as of that close.
C4_ExitErrorBeforeMarker ==
    \A s \in ReadinessSteps :
        (firstProducer[s] = "exit" /\ closeCode[ChildOf(s)] \in {{<<1>>}, {Null}})
            => promise[s] = "ProcessExitedEarly"

\* the value a match over the whole text yields, '' without a match
Scanned(m) == IF m.found THEN m.group ELSE <<>>

\* C5: however the output written so far was split into chunks, each step's detection
\* equals the scan of the unsplit output: the readiness flags say whether the output
\* contains the marker, the address and the network id are the matches in the output.
C5_ChunkBoundaryInvariance ==
    /\ proc["ganache"] = "running" =>
           (ganacheReady <=> includes(emitted["ganache"], ListeningOn))
    /\ proc["server"] = "running" =>
           (serverReady <=> includes(emitted["server"], ServerOnPort))
    /\ proc["migrate"] = "running" =>
           /\ contractAddress = Scanned(addressMatch(emitted["migrate"]))
           /\ networkId = Scanned(networkMatch(emitted["migrate"]))

\* C6: a step is started only when the step before it has succeeded, at most one
\* step is in progress, and no step is started twice.
C6_StepsSequential ==
    /\ \A i \in 1..(Len(Steps) - 1) :
           promise[Steps[i + 1]] # "none" => promise[Steps[i]] = "fulfilled"
    /\ Cardinality({s \in StepNames : promise[s] = "pending"}) <= 1
    /\ \A s \in StepNames : /\ startCount[s] <= 1
                            /\ startCount[s] = 0 <=> promise[s] = "none"

C6_Witness ==
    /\ pc = "Running"
    /\ \A s \in StepNames : promise[s] = "fulfilled" /\ startCount[s] = 1

\* C7: wherever main is suspended, a signal can be handled, and a handled signal has
\* run teardown, signalled the registered running children and ended the
\* orchestrator with exit status 0.
C7_InterruptExitsZero ==
    /\ AtEventLoop => ENABLED Signal
    /\ interrupts >= 1 =>
           /\ exitStatus = <<0>>
           /\ teardownPasses >= 1
           /\ \A p \in Procs : (Registered(p) /\ proc[p] = "running") => termSent[p] >= 1

C7_Witness ==
    /\ interrupts = 1
    /\ pc = "Running"
    /\ exitStatus = <<0>>
    /\ termSent["ganache"] = 1
    /\ termSent["server"] = 1

\* C8: teardown runs at most once per run, exactly once in a run that failed or was
\* interrupted, and no child is sent the termination signal twice.
C8_TeardownOnce ==
    /\ teardownPasses <= 1
    /\ (error # "none" \/ interrupts >= 1) => teardownPasses = 1
    /\ ~(error # "none" /\ interrupts >= 1)
    /\ interrupts <= 1
    /\ \A p \in Procs : killCalls[p] <= 1 /\ termSent[p] <= 1
    /\ Exited => ~ENABLED Signal

C8_Witness ==
    /\ interrupts = 1
    /\ teardownPasses = 1
    /\ killCalls["ganache"] = 1
    /\ termSent["ganache"] = 0
    /\ proc["ganache"] = "closed"
    /\ ~ENABLED Signal

\* C9: a timer that elapsed before the marker was matched has failed its step with
\* StartupTimeout, and a step whose marker has been matched never fails with
\* StartupTimeout.
C9_TimeoutOnlyBeforeMatch ==
    \A s \in ReadinessSteps :
        /\ (timer[TimeoutOf(s)] = "fired" /\ ~ReadyOf(s)) =>
               promise[s] = "StartupTimeout" /\ error = "StartupTimeout"
        /\ ReadyOf(s) => promise[s] # "StartupTimeout"

C9_Witness ==
    /\ timer["ganacheTimeout"] = "fired"
    /\ ganacheReady
    /\ promise["startGanache"] = "fulfilled"
    /\ timer["serverTimeout"] = "fired"
    /\ promise["startServer"] = "StartupTimeout"

\* C10: a readiness step whose marker match fired before its child's exit and its
\* timer ends with the match's outcome, success: the later events do not decide it.
C10_FirstProducerDecides ==
    \A s \in ReadinessSteps :
        (firstProducer[s] = "match" /\ Settled(s)) => promise[s] = "fulfilled"

\* the places of s at which a networkId declaration starts
Decls(s) == {i \in 1..Len(s) : DeclMatchEnd(s, i) # 0}

\* updateServerConfig has returned normally
Patched == promise["updateServerConfig"] = "fulfilled"

\* C11: updateServerConfig succeeds, and the pipeline goes on to seeding, only when
\* the artifact it read contains a networkId declaration.
C11_PatternNotFoundIsFatal ==
    Patched => Decls(configBefore) # {}

\* C12: applying the patch a second time with the same identifier leaves the patched
\* artifact as it is, and the patch changed only the first declaration: the text
\* before it and the text after it, later declarations included, are as read.
C12_PatchIdempotent ==
    Patched =>
        /\ replaceNetworkId(serverContent, mainNetworkId) = serverContent
        /\ IF Decls(configBefore) = {} THEN serverContent = configBefore
           ELSE LET i == Min(Decls(configBefore))
                    e == DeclMatchEnd(configBefore, i)
                    tail == SubSeq(configBefore, e, Len(configBefore))
                IN  /\ SubSeq(serverContent, 1, i - 1) = SubSeq(configBefore, 1, i - 1)
                    /\ SubSeq(serverContent, Len(serverContent) - Len(tail) + 1,
                              Len(serverContent)) = tail
                    /\ Len(serverContent) = (i - 1) + Len(NetworkIdDeclPrefix)
                           + Len(mainNetworkId) + Len(NetworkIdDeclSuffix) + Len(tail)
                    /\ Min(Decls(serverContent)) = i
                    /\ Cardinality(Decls(serverContent)) = Cardinality(Decls(configBefore))

C12_Witness ==
    /\ Patched
    /\ configBefore = ConfigTwoDecls
    /\ mainNetworkId = Id5777
    /\ serverContent # configBefore

\* the calls of a complete seeding, in order
SeedingCalls ==
    << [method |-> "addFarmer", args |-> <<farmerAccount>>],
       [method |-> "harvestItem", args |-> <<"Mango", "Mumbai", 1000, "Premium">>],
       [method |-> "harvestItem", args |-> <<"Rice", "Punjab", 500, "Organic">>],
       [method |-> "harvestItem", args |-> <<"Wheat", "Haryana", 300, "Standard">>] >>

\* C13: the submitted calls are always a prefix of registration, Mango, Rice, Wheat;
\* at most one call is unacknowledged; a rejected call is the last one submitted and
\* its error is the one main caught; a seeding that returned has issued exactly the 4
\* calls.
C13_SeedingInOrder ==
    /\ Len(calls) <= Len(SeedingCalls)
    /\ calls = SubSeq(SeedingCalls, 1, Len(calls))
    /\ Len(calls) - acked \in {0, 1}
    /\ awaitingCall => Len(calls) = acked + 1
    /\ promise["createTestData"] = "CallRejected" =>
           /\ Len(calls) = acked + 1
           /\ error = "CallRejected"
           /\ Exited
    /\ promise["createTestData"] = "fulfilled" =>
           /\ calls = SeedingCalls
           /\ acked = Len(SeedingCalls)

C13_Witness ==
    /\ promise["createTestData"] = "fulfilled"
    /\ Len(calls) = 1 + Len(testItems)
    /\ calls[2].args[1] = "Mango"
    /\ calls[4].args[1] = "Wheat"

\* createTestData has loaded the artifact and gone past its check, or thrown
SeederLoaded == awaitingCall \/ Settled("createTestData")

\* C14: when the loaded artifact has no entry, or an entry without an address, for
\* the identifier main got from the deploy step (the empty identifier included), the
\* seeder has failed with DeploymentArtifactMissing, no call was submitted, main caught
\* that error and the server step was never started.
C14_MissingDeploymentIsFatal ==
    (/\ SeederLoaded
     /\ \/ mainNetworkId \notin DOMAIN artifact
        \/ artifact[mainNetworkId].address = <<>>)
        => /\ promise["createTestData"] = "DeploymentArtifactMissing"
           /\ error = "DeploymentArtifactMissing"
           /\ calls = <<>>
           /\ promise["startServer"] = "none"
           /\ proc["server"] = "unspawned"
           /\ ~serverProcess

C14_Witness ==
    /\ promise["createTestData"] = "DeploymentArtifactMissing"
    /\ mainNetworkId = <<>>
    /\ Id5777 \in DOMAIN artifact
    /\ calls = <<>>
    /\ proc["server"] = "unspawned"

\* C15: every kill call of teardown is a SIGTERM on ganache or on the server, a child
\* that was spawned; ganache's comes before the server's; a child that has closed
\* already gets the call but no signal, and teardown still reaches its exit.
C15_TeardownGracefulInOrder ==
    /\ \A i \in DOMAIN killLog :
           /\ killLog[i].signal = "SIGTERM"
           /\ killLog[i].child \in {"ganache", "server"}
           /\ proc[killLog[i].child] # "unspawned"
    /\ \A i, j \in DOMAIN killLog :
           (killLog[i].child = "ganache" /\ killLog[j].child = "server") => i < j
    /\ teardownPasses >= 1 =>
           /\ Exited
           /\ proc["ganache"] # "unspawned" => killLog[1].child = "ganache"
           /\ proc["server"] # "unspawned" =>
                  killLog = << [child |-> "ganache", signal |-> "SIGTERM"],
                               [child |-> "server", signal |-> "SIGTERM"] >>
           /\ \A p \in Procs :
                  termSent[p] = IF p \in {"ganache", "server"} /\ proc[p] = "running"
                                THEN 1 ELSE 0

C15_Witness ==
    /\ teardownPasses = 1
    /\ Len(killLog) = 2
    /\ proc["ganache"] = "closed"
    /\ proc["server"] = "running"
    /\ termSent["ganache"] = 0
    /\ termSent["server"] = 1
    /\ Exited

\* C16: an orchestrator that has reached Running ends only by handling a signal: it
\* never ends on its own.
C16_RunningLeavesOnlyBySignal ==
    (pc = "Running" /\ Exited) => interrupts >= 1

\* C17: deployContract has no outcome while the migration runs; when the migration
\* closes, the step succeeds exactly when the close code is 0, and the network id
\* handed to main and the address are the first matches of the two patterns in the
\* whole output the migration has written.
C17_DeployScansWholeOutputAtClose ==
    [][ /\ proc'["migrate"] = "running" => promise'["deployContract"] = "pending"
        /\ (proc["migrate"] = "running" /\ proc'["migrate"] = "closed") =>
               /\ promise'["deployContract"] = "fulfilled"
                      <=> closeCode'["migrate"] = {<<0>>}
               /\ promise'["deployContract"] = "fulfilled" =>
                      /\ mainNetworkId' = Scanned(networkMatch(emitted["migrate"]))
                      /\ contractAddress' = Scanned(addressMatch(emitted["migrate"]))
      ]_vars

\* the steps that spawn a child process
SpawningSteps == {"startGanache", "deployContract", "startServer"}

\* C18: every started step that spawns a process eventually has an outcome, unless
\* the orchestrator is ended first.
C18_SpawningStepsEventuallySettle ==
    \A s \in SpawningSteps : (promise[s] = "pending") ~> (Settled(s) \/ Exited)

\* C19: the marker match of startGanache acts at most once, whatever the number of
\* chunks containing the marker; the step is resolved, and deployContract started,
\* only when the settle timer that match armed has fired; the timer is never armed
\* again after that and deployContract is started once.
C19_SettleDelayOnce ==
    /\ matchActs["startGanache"] <= 1
    /\ matchActs["startGanache"] = 1 <=> timer["ganacheSettle"] # "unset"
    /\ matchActs["startGanache"] = 1 <=> ganacheReady
    /\ promise["startGanache"] = "fulfilled" => timer["ganacheSettle"] = "fired"
    /\ promise["deployContract"] # "none" => timer["ganacheSettle"] = "fired"
    /\ timer["ganacheSettle"] = "armed" =>
           /\ promise["startGanache"] # "fulfilled"
           /\ proc["migrate"] = "unspawned"
    /\ startCount["deployContract"] <= 1

C19_Witness ==
    /\ markerSeen["startGanache"] = 2
    /\ matchActs["startGanache"] = 1
    /\ timer["ganacheSettle"] = "fired"
    /\ promise["startGanache"] = "fulfilled"
    /\ startCount["deployContract"] = 1
    /\ pc = "Deploying"

\* C20: once a readiness step has resolved, the close of its child, with any code,
\* and the firing of its timer change neither main's position nor any step's outcome
\* and run no teardown; and after startGanache has resolved the orchestrator ends
\* only with a failed step or a handled signal.
C20_LateEventsChangeNothing ==
    [][ /\ \A s \in ReadinessSteps :
               (/\ promise[s] = "fulfilled"
                /\ \/ proc'[ChildOf(s)] # proc[ChildOf(s)]
                   \/ timer'[TimeoutOf(s)] # timer[TimeoutOf(s)])
                   => UNCHANGED <<pc, promise, error, teardownPasses, killLog, exitStatus>>
        /\ (promise["startGanache"] = "fulfilled" /\ ~Exited /\ Exited')
               => (error' # "none" \/ interrupts' = interrupts + 1)
      ]_vars

====
